---- MODULE Spec2Model ----
(***************************************************************************)
(* BuildArduino.py: the build / link / extract / upload pipeline of main,  *)
(* with the helpers it calls (check_dir, _exec, compile_source,            *)
(* compile_directory, link, make_hex, upload).                             *)
(*                                                                         *)
(* A path is a record [dir, name]; a name is [stem, ext] so that           *)
(* Path.suffix, Path.with_suffix and name + '.o' are computed, not assumed.*)
(* A directory is the sequence of its entries in iteration order.          *)
(***************************************************************************)
EXTENDS Integers, Sequences, FiniteSets, TLC

\* ------------------------------------------------------------------ bounds
\* most entries of the project directory before the run
MaxFiles == 2
\* most entries of the include_dirs given to a call of compile_source
MaxIncludes == 3

\* ------------------------------------------------- constants of the source
BUILD_DIR_NAME == ".build"
EXITCODE_OK == 0
EXITCODE_NO_UPLOAD_DEVICE == 1
EXITCODE_NO_WPROGRAM == 2
EXITCODE_NO_AVR_PATH == 3
EXITCODE_INVALID_LIB == 4
EXITCODE_INVALID_INCLUDE == 5
ARCH == "atmega328p"

\* Python's None
None == "None"

\* ------------------------------------------------------------------- paths
Nm(stem, ext) == [stem |-> stem, ext |-> ext]
Pth(dir, name) == [dir |-> dir, name |-> name]

\* NULL_PATH = pathlib.Path('')
NULL_PATH == Pth("", Nm("", ""))

\* source.name : the full file name
FullName(name) == name.stem \o name.ext

\* str(path)
PathStr(p) == p.dir \o "/" \o FullName(p.name)

\* path.with_suffix(s)
WithSuffix(p, s) == Pth(p.dir, Nm(p.name.stem, s))

\* target_dir / (source.name + '.o')
ObjectPath(source, target_dir) == Pth(target_dir, Nm(FullName(source.name), ".o"))

\* a directory entry: a regular file or a subdirectory
\* data stands for the content: the full name of the file it was written from
FileEntry(stem, ext) ==
    [name |-> Nm(stem, ext), kind |-> "file", data |-> stem \o ext]
DirEntry(stem) == [name |-> Nm(stem, ""), kind |-> "dir", data |-> ""]

\* filename.is_file()
IsFile(entry) == entry.kind = "file"

\* ------------------------------------------------------ source classifier
\* COMPILERS.get(ext, None)
CompilersHeaderAsC(ext) ==
    CASE ext = ".c" -> "avr-gcc"
      [] ext = ".S" -> "avr-gcc"
      [] ext = ".cpp" -> "avr-g++"
      [] ext = ".h" -> "avr-gcc"
      [] ext = ".ino" -> "arduino"
      [] ext = ".pde" -> "arduino"
      [] OTHER -> None
COMPILERS(ext) ==
    CASE ext = ".c" -> "avr-gcc"
      [] ext = ".S" -> "avr-gcc"
      [] ext = ".cpp" -> "avr-g++"
      [] ext = ".h" -> "header"
      [] ext = ".ino" -> "arduino"
      [] ext = ".pde" -> "arduino"
      [] OTHER -> None

\* ------------------------------------------------------------------ _exec
\* subprocess.run is called iff not simulate
ExecRunsAlways(simulate) == TRUE
ExecRuns(simulate) == ~simulate

\* _exec raises iff the command ran and its return code is not valid_exitcode
ExecRaisesNever(simulate, rc) == FALSE
ExecRaises(simulate, rc) == ExecRuns(simulate) /\ rc # EXITCODE_OK

\* the exit codes an external tool can return (0, or some non-zero code)
ExitCodes == {0, 1}
\* in simulate mode there is no exit code: the recorded command carries None
RcOf(simulate, rc) == IF ExecRuns(simulate) THEN rc ELSE -1

\* a constructed command: what _exec was given, whether subprocess.run was
\* called on it, and the exit code it returned
\* includes: the -I flags; mcu: the value of -mmcu (of -p for avrdude); conf:
\* the -C flag
NoOpts == [includes |-> <<>>, mcu |-> None, conf |-> None]
Cmd(tool, action, stage, src, target, files, opts, simulate, rc) ==
    [tool |-> tool, action |-> action, stage |-> stage, src |-> src,
     target |-> target, files |-> files,
     includes |-> opts.includes, mcu |-> opts.mcu, conf |-> opts.conf,
     ran |-> ExecRuns(simulate), rc |-> RcOf(simulate, rc)]

\* --------------------------------------------------------- compile_source
\* result: the returned path; cmds: the commands handed to _exec (none or
\* one); raised: whether _exec raised
\* d not in dirs
NotInNever(d, dirs) == TRUE
NotIn(d, dirs) == \A k \in 1..Len(dirs) : dirs[k] # d

\* for d in include_dirs: if d not in dirs: dirs.append(d)
RECURSIVE include_loop(_, _)
include_loop(dirs, include_dirs) ==
    IF include_dirs = <<>> THEN dirs
    ELSE include_loop(IF NotIn(Head(include_dirs), dirs)
                      THEN Append(dirs, Head(include_dirs))
                      ELSE dirs,
                      Tail(include_dirs))

\* dirs = [source.parent], then the loop
include_list(source, include_dirs) == include_loop(<<source.dir>>, include_dirs)

\* [f'-I{d}' for d in dirs]
includes(dirs) == [k \in 1..Len(dirs) |-> "-I" \o dirs[k]]

compile_source(source, target_dir, include_dirs, arch, stage, simulate, rc) ==
    LET compiler == COMPILERS(source.name.ext)
        target == ObjectPath(source, target_dir)
        opts == [includes |-> includes(include_list(source, include_dirs)),
                 mcu |-> arch, conf |-> None]
    IN  IF compiler \in {None, "header", "arduino"}
        THEN [result |-> NULL_PATH, cmds |-> <<>>, raised |-> FALSE]
        ELSE [result |-> target,
              cmds |-> <<Cmd(compiler, "compile", stage, source, target, <<>>,
                             opts, simulate, rc)>>,
              raised |-> ExecRaises(simulate, rc)]

\* ------------------------------------------------------ compile_directory
\* one exit code for each entry of a listing, read only if a tool runs on it.
\* The loop ends at the first non-zero code, so the codes after it are never
\* read: they are left at 0.
ExitCodesFor(listing) ==
    {[k \in 1..Len(listing) |-> IF k = f THEN rc ELSE EXITCODE_OK] :
        f \in 0..Len(listing), rc \in ExitCodes \ {EXITCODE_OK}}

\* the loop over directory.iterdir() from its k-th entry on, with the
\* commands handed to _exec and the objects collected so far; an exception of
\* _exec ends the loop
RECURSIVE iterdir_loop(_, _, _, _, _, _, _, _, _, _, _)
iterdir_loop(directory, listing, target_dir, include_dirs, arch, stage, simulate, rcs, k, cs, obj_files) ==
    IF k > Len(listing)
    THEN [cmds |-> cs, obj_files |-> obj_files, raised |-> FALSE, rc |-> EXITCODE_OK]
    ELSE IF ~IsFile(listing[k])
    THEN iterdir_loop(directory, listing, target_dir, include_dirs, arch, stage,
                      simulate, rcs, k + 1, cs, obj_files)
    ELSE LET obj == compile_source(Pth(directory, listing[k].name), target_dir,
                                   include_dirs, arch, stage, simulate, rcs[k])
         IN  IF obj.raised
             THEN [cmds |-> cs \o obj.cmds, obj_files |-> obj_files,
                   raised |-> TRUE, rc |-> rcs[k]]
             ELSE iterdir_loop(directory, listing, target_dir, include_dirs, arch,
                               stage, simulate, rcs, k + 1, cs \o obj.cmds,
                               IF obj.result = NULL_PATH THEN obj_files
                               ELSE Append(obj_files, obj.result))

\* cmds: the commands handed to _exec; obj_files: the list returned;
\* raised: whether _exec raised
compile_directory(directory, listing, target_dir, include_dirs, arch, stage, simulate, rcs) ==
    iterdir_loop(directory, listing, target_dir, include_dirs, arch, stage, simulate,
                 rcs, 1, <<>>, <<>>)

\* -------------------------------------------------------------- the disk
CoreDir == "core"
ProjectDir == "sketch"
BuildDir == ProjectDir \o "/" \o BUILD_DIR_NAME
LibDirs == {"Servo", "Wire"}

\* the sequences without repetition over S, of length at most n
Listings(S, n) ==
    UNION {{s \in [1..k -> S] : \A a, b \in 1..k : a # b => s[a] # s[b]} : k \in 0..n}

\* the core-runtime directory the disk holds
CoreListing ==
    <<FileEntry("Arduino", ".h"), FileEntry("main", ".cpp"), FileEntry("wiring", ".c")>>

ProjUniverse ==
    {FileEntry("main", ".ino"), FileEntry("main", ".cpp"),
     FileEntry("blink", ".pde"), FileEntry("util", ".c")}

\* the library directories the disk holds
LibListing(d) ==
    IF d = "Servo"
    THEN <<FileEntry("Servo", ".h"), FileEntry("Servo", ".cpp")>>
    ELSE <<DirEntry("utility"), FileEntry("twi", ".S"), FileEntry("keywords", ".txt")>>

\* the files a build directory left by an earlier run may hold
StaleFiles == {[name |-> Nm("old.c", ".o"), data |-> "stale"]}

\* the directories that exist on the disk, besides the project's
ExistingDirs == {CoreDir, "variants", "avr"} \cup LibDirs

\* -------------------------------------------------------------- check_dir
\* dir_str is None (option not given) or a directory name
check_dir(dir_str, must_exist) ==
    LET path == dir_str
    IN  IF path = None /\ ~must_exist
        THEN [raised |-> FALSE, path |-> None]
        ELSE IF path = None \/ path \notin ExistingDirs
             THEN [raised |-> TRUE, path |-> None]
             ELSE [raised |-> FALSE, path |-> path]

\* [check_dir(l, ...) for l in xs]: the index of the first l that raises, or 0
FirstInvalid(xs) ==
    LET bad == {k \in 1..Len(xs) : check_dir(xs[k], TRUE).raised}
    IN  IF bad = {} THEN 0 ELSE CHOOSE k \in bad : \A j \in bad : k <= j

\* ------------------------------------------------------------------ state
VARIABLES
    pc,                   \* the stage main has completed, or "done" / "failed"
    err,                  \* the exception that ended the run
    args,                 \* the parsed options
    libraries,            \* the checked -l directories, in the order given
    dude_conf,            \* pathlib.Path(args.dude_conf)
    include_dirs,         \* the checked -i directories, in the order given
    projDir,              \* listing of the project directory
    build,                \* the build directory: exists, files
    proj0, build0,        \* projDir and build as they were before the run
    li,                   \* how many libraries have been compiled
    cpp_files,            \* the translated copies recorded
    core_obj_files, libraries_obj_files, project_obj_files,
    cmds,                 \* every command handed to _exec, in order
    stages,               \* the stages entered, in order
    call                  \* a call of compile_source on its own: arguments, outcome

vars == <<pc, err, args, libraries, dude_conf, include_dirs, call, projDir, build, proj0,
          build0, li, cpp_files, core_obj_files, libraries_obj_files,
          project_obj_files, cmds, stages>>

disk == <<projDir, build, proj0, build0>>
objs == <<core_obj_files, libraries_obj_files, project_obj_files>>
conf == <<args, libraries, dude_conf, include_dirs>>

NoErr == [kind |-> "none", code |-> 0]
ValueError(code) == [kind |-> "ValueError", code |-> code]
\* pathlib.Path(None)
TypeError == [kind |-> "TypeError", code |-> 0]
\* Exception("Callable error ...") of _exec
CallableError(rc) == [kind |-> "Exception", code |-> rc]

\* argparse's defaults
DefaultArgs ==
    [simulate |-> FALSE, refresh |-> FALSE, only_build |-> FALSE,
     upload_port |-> None, arch |-> ARCH, dude_conf |-> None]

BuildEntry == DirEntry(BUILD_DIR_NAME)

\* no call of compile_source on its own
NoCall ==
    [source |-> NULL_PATH, include_dirs |-> <<>>, returned |-> FALSE,
     result |-> NULL_PATH, cmds |-> <<>>]

Init ==
    /\ pc = "parse"
    /\ err = NoErr
    /\ args = DefaultArgs
    /\ libraries = <<>>
    /\ dude_conf = None
    /\ include_dirs = <<>>
    /\ call = NoCall
    /\ build \in {[exists |-> FALSE, files |-> {}],
                  [exists |-> TRUE, files |-> StaleFiles]}
    /\ \E l \in Listings(ProjUniverse, MaxFiles) :
          projDir = IF build.exists THEN Append(l, BuildEntry) ELSE l
    /\ proj0 = projDir
    /\ build0 = build
    /\ li = 0
    /\ cpp_files = <<>>
    /\ core_obj_files = <<>>
    /\ libraries_obj_files = <<>>
    /\ project_obj_files = <<>>
    /\ cmds = <<>>
    /\ stages = <<>>

\* an exception unwinds main: nothing else changes
Raise(e) ==
    /\ pc' = "failed"
    /\ err' = e

\* ----------------------------------------------------- main, lines 345-368
\* the --arch values that can be given (the first is the default)
Archs == {ARCH, "atmega2560"}

\* [core_path] + [variant_path / board]
arduino_files == <<CoreDir, "variants" \o "/" \o "standard">>

ParseArgs ==
    /\ pc = "parse"
    /\ \E sim, ref, only \in BOOLEAN, port \in {None, "COM3"}, arch \in Archs,
          file \in {None, "avrdude.conf"} :
          args' = [simulate |-> sim, refresh |-> ref, only_build |-> only,
                   upload_port |-> port, arch |-> arch, dude_conf |-> file]
    /\ pc' = "test_args"
    /\ UNCHANGED <<err, libraries, dude_conf, include_dirs, call, disk, li, cpp_files, objs, cmds, stages>>

\* the -l lists that can be given
LibArgs == Listings(LibDirs \cup {"nolib"}, Cardinality(LibDirs) + 1)

TestArgs ==
    /\ pc = "test_args"
    /\ UNCHANGED <<args, call, disk, li, cpp_files, objs, cmds, stages>>
    /\ \E w \in {None, "nowhere", CoreDir} :
         IF check_dir(w, TRUE).raised
         THEN Raise(ValueError(EXITCODE_NO_WPROGRAM)) /\ UNCHANGED <<libraries, dude_conf, include_dirs>>
         ELSE \E v \in {None, "nowhere", "variants"} :
         IF check_dir(v, TRUE).raised
         THEN Raise(ValueError(EXITCODE_NO_WPROGRAM)) /\ UNCHANGED <<libraries, dude_conf, include_dirs>>
         ELSE \E a \in {None, "nowhere", "avr"} :
         IF check_dir(a, FALSE).raised
         THEN Raise(ValueError(EXITCODE_NO_AVR_PATH)) /\ UNCHANGED <<libraries, dude_conf, include_dirs>>
         ELSE
         \* pathlib.Path(None) raises
         IF args.dude_conf = None
         THEN Raise(TypeError) /\ UNCHANGED <<libraries, dude_conf, include_dirs>>
         ELSE \E ls \in LibArgs :
         IF FirstInvalid(ls) # 0
         THEN Raise(ValueError(EXITCODE_INVALID_LIB)) /\ dude_conf' = args.dude_conf
              /\ UNCHANGED <<libraries, include_dirs>>
         ELSE \E is \in {<<>>, <<"noinc">>} :
         IF FirstInvalid(is) # 0
         THEN Raise(ValueError(EXITCODE_INVALID_INCLUDE)) /\ dude_conf' = args.dude_conf
              /\ UNCHANGED <<libraries, include_dirs>>
         ELSE /\ dude_conf' = args.dude_conf
              /\ libraries' = ls
              /\ include_dirs' = is
              /\ pc' = "start"
              /\ UNCHANGED err

\* ------------------------------------------------- main, the order of stages
\* the stage whose code main runs right before the code of `stage`
PredecessorProjectFirst(stage) ==
    CASE stage = "core" -> "prepare"
      [] stage = "libs" -> "core"
      [] stage = "project" -> "libs"
      [] stage = "translate" -> "project"
      [] stage = "link" -> "translate"
      [] stage = "extract" -> "link"
      [] stage = "delete" -> "extract"
      [] stage = "upload" -> "delete"
Predecessor(stage) ==
    CASE stage = "core" -> "prepare"
      [] stage = "libs" -> "core"
      [] stage = "translate" -> "libs"
      [] stage = "project" -> "translate"
      [] stage = "link" -> "project"
      [] stage = "extract" -> "link"
      [] stage = "delete" -> "extract"
      [] stage = "upload" -> "delete"

\* the code of stage s has run to its end
Finished(s) ==
    /\ pc = s
    /\ s = "libs" => li = Len(libraries)

\* control reaches the first statement of `stage`
Ready(stage) ==
    IF stage = "prepare" THEN pc = "start" ELSE Finished(Predecessor(stage))

Enter(stage, dir) == stages' = Append(stages, [stage |-> stage, dir |-> dir])

\* ------------------------------------------------------ main, lines 374-383
\* the build directory after preparation
PreparedBuildAlwaysWiped(b, refresh) == [exists |-> TRUE, files |-> {}]
PreparedBuild(b, refresh) ==
    IF b.exists /\ refresh
    THEN [exists |-> TRUE, files |-> {}]       \* rmtree, mkdir
    ELSE IF ~b.exists
         THEN [exists |-> TRUE, files |-> {}]  \* mkdir
         ELSE b

PrepareBuildDir ==
    /\ Ready("prepare")
    /\ pc' = "prepare"
    /\ Enter("prepare", BuildDir)
    /\ build' = PreparedBuild(build, args.refresh)
    \* .build is an entry of the project directory
    /\ projDir' = IF build.exists THEN projDir ELSE Append(projDir, BuildEntry)
    /\ UNCHANGED <<err, conf, call, proj0, build0, li, cpp_files, objs, cmds>>

\* ------------------------------------------------------------ the build
\* a file written into the build directory
WriteFile(files, name, data) ==
    {f \in files : f.name # name} \cup {[name |-> name, data |-> data]}

\* the build directory after the commands cs: those that ran and succeeded
\* wrote their target
RECURSIVE Written(_, _)
Written(files, cs) ==
    IF cs = <<>> THEN files
    ELSE LET c == Head(cs)
         IN  Written(IF c.ran /\ c.rc = EXITCODE_OK
                     THEN WriteFile(files, c.target.name, PathStr(c.src))
                     ELSE files,
                     Tail(cs))

\* the outcome r of a helper that hands commands to _exec: the commands are
\* logged, the tools that ran wrote their files, and an exception of _exec
\* ends the run; otherwise main goes on from `next`
Outcome(r, next) ==
    /\ cmds' = cmds \o r.cmds
    /\ build' = [build EXCEPT !.files = Written(@, r.cmds)]
    /\ IF r.raised
       THEN Raise(CallableError(r.rc))
       ELSE pc' = next /\ UNCHANGED err

\* ------------------------------------------------------ main, lines 385-389
CompileCore ==
    /\ Ready("core")
    /\ Enter("core", CoreDir)
    /\ \E rcs \in ExitCodesFor(CoreListing) :
         LET r == compile_directory(CoreDir, CoreListing, BuildDir, arduino_files,
                                    args.arch, "core", args.simulate, rcs)
         IN  /\ Outcome(r, "core")
             /\ core_obj_files' = IF r.raised THEN core_obj_files ELSE r.obj_files
    /\ UNCHANGED <<conf, call, projDir, proj0, build0, li, cpp_files,
                   libraries_obj_files, project_obj_files>>

\* ------------------------------------------------------ main, lines 391-397
StartLibs ==
    /\ Ready("libs")
    /\ pc' = "libs"
    /\ Enter("libs", "")
    /\ li' = 0
    /\ libraries_obj_files' = <<>>
    /\ UNCHANGED <<err, conf, call, disk, cpp_files, core_obj_files,
                   project_obj_files, cmds>>

\* one iteration of the loop over libraries
CompileLibrary ==
    /\ pc = "libs"
    /\ li < Len(libraries)
    /\ Enter("library", libraries[li + 1])
    /\ \E rcs \in ExitCodesFor(LibListing(libraries[li + 1])) :
         LET library == libraries[li + 1]
             r == compile_directory(library, LibListing(library), BuildDir,
                                    libraries \o arduino_files, args.arch, "libs",
                                    args.simulate, rcs)
         IN  /\ Outcome(r, "libs")
             /\ libraries_obj_files' = IF r.raised THEN libraries_obj_files
                                       ELSE libraries_obj_files \o r.obj_files
             /\ li' = IF r.raised THEN li ELSE li + 1
    /\ UNCHANGED <<conf, call, projDir, proj0, build0, cpp_files,
                   core_obj_files, project_obj_files>>

\* ------------------------------------------------------ main, lines 399-408
\* main_path.glob('*' + ext): the entries of the listing with that suffix
Glob(listing, ext) == SelectSeq(listing, LAMBDA e : e.name.ext = ext)

HasName(listing, name) == \E k \in 1..Len(listing) : listing[k].name = name

InsertAt(s, k, e) == SubSeq(s, 1, k - 1) \o <<e>> \o SubSeq(s, k, Len(s))

\* shutil.copy(src, dst) inside one directory: the listings that can result.
\* An existing dst is overwritten in place; a new dst shows up at any
\* position of the iteration order.
Copied(listing, src, dstName) ==
    IF HasName(listing, dstName)
    THEN {[k \in 1..Len(listing) |->
             IF listing[k].name = dstName
             THEN [listing[k] EXCEPT !.data = src.data]
             ELSE listing[k]]}
    ELSE {InsertAt(listing, k, [name |-> dstName, kind |-> "file", data |-> src.data]) :
             k \in 1..(Len(listing) + 1)}

\* the loop over the globbed files: the listings that can result
RECURSIVE Translated(_, _)
Translated(listing, ino_files) ==
    IF ino_files = <<>> THEN {listing}
    ELSE UNION {Translated(l, Tail(ino_files)) :
                  l \in Copied(listing, Head(ino_files),
                               WithSuffix(Pth(ProjectDir, Head(ino_files).name), ".cpp").name)}

Translate ==
    /\ Ready("translate")
    /\ pc' = "translate"
    /\ Enter("translate", ProjectDir)
    /\ LET ino_files == Glob(projDir, ".ino")
       IN  /\ projDir' \in Translated(projDir, ino_files)
           /\ cpp_files' = [k \in 1..Len(ino_files) |->
                              WithSuffix(Pth(ProjectDir, ino_files[k].name), ".cpp")]
    /\ UNCHANGED <<err, conf, call, build, proj0, build0, li, objs, cmds>>

\* ------------------------------------------------------ main, lines 410-415
CompileProject ==
    /\ Ready("project")
    /\ Enter("project", ProjectDir)
    /\ \E rcs \in ExitCodesFor(projDir) :
         LET r == compile_directory(ProjectDir, projDir, BuildDir,
                                    include_dirs \o libraries \o arduino_files,
                                    args.arch, "project", args.simulate, rcs)
         IN  /\ Outcome(r, "project")
             /\ project_obj_files' = IF r.raised THEN project_obj_files
                                     ELSE r.obj_files
    /\ UNCHANGED <<conf, call, projDir, proj0, build0, li, cpp_files,
                   core_obj_files, libraries_obj_files>>

\* ------------------------------------------------------ main, lines 417-421
\* build_path / (main_path.name + '.elf')
link_output == Pth(BuildDir, Nm(ProjectDir, ".elf"))

\* the list main hands to link
LinkFilesCoreFirst(project, libs, core) == core \o libs \o project
LinkFilesLibsLast(project, libs, core) == project \o core \o libs
LinkFilesProjectOnly(project, libs, core) == project
LinkFiles(project, libs, core) == project \o libs \o core

\* link(target, files, arch=ARCH)
link(target, files, arch, simulate, rc) ==
    [cmds |-> <<Cmd("avr-gcc", "link", "link", NULL_PATH, target, files,
                    [NoOpts EXCEPT !.mcu = arch], simulate, rc)>>,
     raised |-> ExecRaises(simulate, rc),
     rc |-> rc]

Link ==
    /\ Ready("link")
    /\ Enter("link", BuildDir)
    \* main gives link no arch: the default of the parameter applies
    /\ \E rc \in ExitCodes :
          Outcome(link(link_output,
                       LinkFiles(project_obj_files, libraries_obj_files, core_obj_files),
                       ARCH, args.simulate, rc),
                  "link")
    /\ UNCHANGED <<conf, call, projDir, proj0, build0, li, cpp_files, objs>>

\* ------------------------------------------------- make_hex, lines 249-271
eeprom_section(elf) == WithSuffix(elf, ".epp")
hex_section(elf) == WithSuffix(elf, ".hex")

\* make_hex(elf): two avr-objcopy commands; the second is not reached when
\* the first raises
make_hex(elf, simulate, rc1, rc2) ==
    LET first == Cmd("avr-objcopy", "eeprom", "extract", elf, eeprom_section(elf),
                     <<>>, NoOpts, simulate, rc1)
        second == Cmd("avr-objcopy", "flash", "extract", elf, hex_section(elf),
                      <<>>, NoOpts, simulate, rc2)
    IN  IF ExecRaises(simulate, rc1)
        THEN [cmds |-> <<first>>, raised |-> TRUE, rc |-> rc1]
        ELSE [cmds |-> <<first, second>>, raised |-> ExecRaises(simulate, rc2),
              rc |-> rc2]

Extract ==
    /\ Ready("extract")
    /\ Enter("extract", BuildDir)
    /\ \E rc1, rc2 \in ExitCodes :
          Outcome(make_hex(link_output, args.simulate, rc1, rc2), "extract")
    /\ UNCHANGED <<conf, call, projDir, proj0, build0, li, cpp_files, objs>>

\* ------------------------------------------------------ main, lines 425-428
\* path.unlink()
UnlinkedNothing(listing, name) == listing
Unlinked(listing, name) == SelectSeq(listing, LAMBDA e : e.name # name)

\* the loop over cpp_files
RECURSIVE UnlinkedAll(_, _)
UnlinkedAll(listing, paths) ==
    IF paths = <<>> THEN listing
    ELSE UnlinkedAll(Unlinked(listing, Head(paths).name), Tail(paths))

Delete ==
    /\ Ready("delete")
    /\ pc' = "delete"
    /\ Enter("delete", ProjectDir)
    /\ projDir' = UnlinkedAll(projDir, cpp_files)
    /\ UNCHANGED <<err, conf, call, build, proj0, build0, li, cpp_files,
                   objs, cmds>>

\* ------------------------------------------------------ main, lines 434-439
\* if not args.only_build
UploadRequestedAlways(a) == TRUE
UploadRequested(a) == ~a.only_build

\* if args.upload_port is None
NoDeviceNever(a) == FALSE
NoDevice(a) == a.upload_port = None

\* *([f'-C{dude_conf}'] if dude_conf is not None else [])
ConfFlag(conf_file) == IF conf_file # None THEN "-C" \o conf_file ELSE None

\* upload(hex_section, dev, dude_conf, arch)
upload(hex, dev, conf_file, arch, simulate, rc) ==
    [cmds |-> <<Cmd("avrdude", "upload", "upload", hex, NULL_PATH, <<>>,
                    [NoOpts EXCEPT !.mcu = arch, !.conf = ConfFlag(conf_file)],
                    simulate, rc)>>,
     raised |-> ExecRaises(simulate, rc),
     rc |-> rc]

\* only-build: main returns
Finish ==
    /\ Ready("upload")
    /\ ~UploadRequested(args)
    /\ pc' = "done"
    /\ UNCHANGED <<err, conf, call, disk, li, cpp_files, objs, cmds, stages>>

NoUploadDevice ==
    /\ Ready("upload")
    /\ UploadRequested(args)
    /\ NoDevice(args)
    /\ Raise(ValueError(EXITCODE_NO_UPLOAD_DEVICE))
    /\ UNCHANGED <<conf, call, disk, li, cpp_files, objs, cmds, stages>>

Upload ==
    /\ Ready("upload")
    /\ UploadRequested(args)
    /\ ~NoDevice(args)
    /\ Enter("upload", args.upload_port)
    /\ \E rc \in ExitCodes :
          Outcome(upload(hex_section(link_output), args.upload_port, dude_conf,
                         args.arch, args.simulate, rc),
                  "done")
    /\ UNCHANGED <<conf, call, projDir, proj0, build0, li, cpp_files, objs>>

\* ------------------------------------------------------------ the program
Next ==
    \/ ParseArgs
    \/ TestArgs
    \/ PrepareBuildDir
    \/ CompileCore
    \/ StartLibs
    \/ CompileLibrary
    \/ Translate
    \/ CompileProject
    \/ Link
    \/ Extract
    \/ Delete
    \/ Finish
    \/ NoUploadDevice
    \/ Upload

Spec == Init /\ [][Next]_vars

Terminated == pc \in {"done", "failed"}

\* ----------------------------------------- compile_source, called on its own
\* the directories a source can lie in and an include list can name
CallDirs == {CoreDir, "Servo", ProjectDir}
CallSources ==
    {Pth(d, Nm("main", ".cpp")) : d \in CallDirs} \cup {Pth("Servo", Nm("Servo", ".h"))}
\* the include lists: any directories, repeated or not, the source's own too
IncludeLists == UNION {[1..n -> CallDirs] : n \in 0..MaxIncludes}

InitCall ==
    /\ pc = "call"
    /\ err = NoErr
    /\ args = DefaultArgs
    /\ libraries = <<>>
    /\ dude_conf = None
    /\ include_dirs = <<>>
    /\ \E source \in CallSources, dirs \in IncludeLists :
          call = [NoCall EXCEPT !.source = source, !.include_dirs = dirs]
    /\ build = [exists |-> TRUE, files |-> {}]
    /\ projDir = <<BuildEntry>>
    /\ proj0 = projDir
    /\ build0 = build
    /\ li = 0
    /\ cpp_files = <<>>
    /\ core_obj_files = <<>>
    /\ libraries_obj_files = <<>>
    /\ project_obj_files = <<>>
    /\ cmds = <<>>
    /\ stages = <<>>

\* compile_source(source, target_dir, include_dirs)
CallCompileSource ==
    /\ pc = "call"
    /\ ~call.returned
    /\ \E simulate \in BOOLEAN, rc \in ExitCodes :
         LET r == compile_source(call.source, BuildDir, call.include_dirs, ARCH,
                                 "call", simulate, rc)
         IN  call' = [call EXCEPT !.returned = ~r.raised,
                                  !.result = IF r.raised THEN NULL_PATH ELSE r.result,
                                  !.cmds = r.cmds]
    /\ UNCHANGED <<pc, err, conf, disk, li, cpp_files, objs, cmds, stages>>

SpecCall == InitCall /\ [][CallCompileSource]_vars

\* ================================================================= claims
IsPrefix(s, t) == Len(s) <= Len(t) /\ SubSeq(t, 1, Len(s)) = s
CmdsOf(action) == SelectSeq(cmds, LAMBDA c : c.action = action)
CompileCmds(stage) ==
    SelectSeq(cmds, LAMBDA c : c.action = "compile" /\ c.stage = stage)
TargetsOf(cs) == [k \in 1..Len(cs) |-> cs[k].target]
SourcesOf(cs) == [k \in 1..Len(cs) |-> cs[k].src]
StageNames == [k \in 1..Len(stages) |-> stages[k].stage]
Entered(stage) == \E k \in 1..Len(stages) : stages[k].stage = stage
Failed(c) == c.ran /\ c.rc # 0

\* ---- C1
\* The stages of a run, in the order the claim gives them.
C1_Order ==
    <<"prepare", "core", "libs">>
        \o [k \in 1..Len(libraries) |-> "library"]
        \o <<"translate", "project", "link", "extract", "delete", "upload">>
C1_Rank(stage) ==
    CASE stage = "core" -> 1 [] stage = "libs" -> 2 [] stage = "project" -> 3
      [] stage = "link" -> 4 [] stage = "extract" -> 5 [] stage = "upload" -> 6

\* C1: the stages of main are entered in the order prepare, core, each
\* library in the order given, translate, project, link, extract, delete,
\* then upload or stop; none is entered twice, none before its predecessor
\* has finished (the commands of a stage all precede those of the next), and
\* a run that ends well has entered them all.
C1_StageOrder ==
    /\ IsPrefix(StageNames, C1_Order)
    /\ \A k \in 1..Len(stages) :
          stages[k].stage = "library" => stages[k].dir = libraries[k - 3]
    /\ \A k \in 2..Len(cmds) :
          C1_Rank(cmds[k - 1].stage) <= C1_Rank(cmds[k].stage)
    /\ \A k \in 1..Len(cmds) : Entered(cmds[k].stage)
    /\ pc = "done" =>
          StageNames = IF args.only_build
                       THEN SubSeq(C1_Order, 1, Len(C1_Order) - 1)
                       ELSE C1_Order

C1_Witness ==
    /\ pc = "done"
    /\ Len(libraries) = 2
    /\ cpp_files # <<>>
    /\ Entered("upload")
    /\ Len(CompileCmds("core")) = 2

\* ---- C2
\* C2: a command that exits with a non-zero status is the last command of
\* the run: the run is in its failure state with _exec's exception, and no
\* command (the same or another) follows it.
C2_FirstFailureEndsRun ==
    \A k \in 1..Len(cmds) :
        Failed(cmds[k]) =>
            /\ k = Len(cmds)
            /\ pc = "failed"
            /\ err = CallableError(cmds[k].rc)
            /\ ~args.simulate

C2_Witness ==
    /\ pc = "failed"
    /\ Len(cmds) >= 3
    /\ Failed(cmds[Len(cmds)])
    /\ cmds[Len(cmds)].stage = "libs"

\* ---- C3
\* main has a next step to take: a directory pass it is ready for (a pass
\* takes any listing and any exit codes), or another step that is enabled
C3_GoesOn ==
    \/ Ready("core")
    \/ pc = "libs" /\ li < Len(libraries)
    \/ Ready("project")
    \/ ENABLED (\/ StartLibs \/ Translate \/ Link \/ Extract \/ Delete
                \/ Finish \/ NoUploadDevice \/ Upload)

C4_LinkInputs ==
    \A k \in 1..Len(cmds) :
        cmds[k].action = "link" =>
            /\ cmds[k].files = TargetsOf(CompileCmds("project"))
                                 \o TargetsOf(CompileCmds("libs"))
                                 \o TargetsOf(CompileCmds("core"))
            /\ cmds[k].files =
                  project_obj_files \o libraries_obj_files \o core_obj_files

C4_Witness ==
    /\ Len(CmdsOf("link")) = 1
    /\ Len(CompileCmds("project")) = 2
    /\ Len(CompileCmds("libs")) = 2
    /\ Len(CompileCmds("core")) = 2

\* ---- C5
C5_Compiles == CmdsOf("compile")
C5_CompileOrder ==
    \A k \in 2..Len(C5_Compiles) :
        C1_Rank(C5_Compiles[k - 1].stage) <= C1_Rank(C5_Compiles[k].stage)

\* C5 as stated: core objects are compiled before library objects, library
\* objects before project objects, and the link command lists the objects in
\* the order in which they were compiled.
C5_LinkOrderIsCompileOrder ==
    /\ C5_CompileOrder
    /\ \A k \in 1..Len(cmds) :
          cmds[k].action = "link" => cmds[k].files = TargetsOf(C5_Compiles)

\* the compile command whose object stands at position a of the link list:
\* project objects come first, core objects last
C5_CompiledAt(a) ==
    LET nC == Len(CompileCmds("core"))
        nL == Len(CompileCmds("libs"))
        nP == Len(CompileCmds("project"))
    IN  IF a <= nP THEN nC + nL + a
        ELSE IF a <= nP + nL THEN nC + (a - nP)
        ELSE a - nP - nL

\* C5, amended: core objects are compiled before library objects, library
\* objects before project objects; the link command lists the three groups
\* in the opposite order (project, libraries, core), and inside each group
\* the objects keep the order in which they were compiled.
C5_LinkOrderReversesGroups ==
    /\ C5_CompileOrder
    /\ \A k \in 1..Len(cmds) :
          cmds[k].action = "link" =>
              /\ Len(cmds[k].files) = Len(C5_Compiles)
              /\ \A a \in 1..Len(cmds[k].files) :
                    cmds[k].files[a] = C5_Compiles[C5_CompiledAt(a)].target

C5_Witness ==
    /\ Len(CmdsOf("link")) = 1
    /\ Len(CompileCmds("project")) = 2
    /\ Len(CompileCmds("libs")) = 1
    /\ Len(CompileCmds("core")) = 2
    /\ ~args.simulate

\* ---- C6
\* C6: with only-build set the programmer is never invoked and the upload
\* stage is never entered; once the images are extracted and the translated
\* files deleted the run ends well, with or without an upload device, and it
\* never ends with the no-upload-device error.
C6_OnlyBuildNeverUploads ==
    args.only_build =>
        /\ CmdsOf("upload") = <<>>
        /\ ~Entered("upload")
        /\ err # ValueError(EXITCODE_NO_UPLOAD_DEVICE)
        /\ Finished("delete") => ENABLED Finish
        /\ (Entered("delete") /\ Terminated) => pc = "done"
        /\ pc = "done" =>
              /\ Len(CmdsOf("flash")) = 1
              /\ cmds[Len(cmds)].action = "flash"

C6_Witness ==
    /\ args.only_build
    /\ args.upload_port = None
    /\ ~args.simulate
    /\ pc = "done"

\* ---- C7
C7_NoDeviceCase == ~args.only_build /\ args.upload_port = None /\ pc # "parse"

\* C7 as stated, for the runs whose options pass main's tests: with upload
\* requested and no upload device the run ends with ValueError(1), without
\* the programmer having been invoked.
C7_EndsWithNoDeviceError ==
    (C7_NoDeviceCase /\ stages # <<>> /\ Terminated) =>
        /\ err = ValueError(EXITCODE_NO_UPLOAD_DEVICE)
        /\ CmdsOf("upload") = <<>>

\* C7, amended: with upload requested and no upload device the programmer is
\* never invoked and the run never ends well; a run in which every stage up
\* to the deletion of the translated files has completed ends with
\* ValueError(1), which is not _exec's exception.  (The device is looked at
\* only then: a tool that fails earlier ends the run with its own error.)
C7_NoDeviceAtDecision ==
    C7_NoDeviceCase =>
        /\ CmdsOf("upload") = <<>>
        /\ ~Entered("upload")
        /\ pc # "done"
        /\ (Entered("delete") /\ Terminated) =>
              /\ pc = "failed"
              /\ err = ValueError(EXITCODE_NO_UPLOAD_DEVICE)
              /\ err.kind # "Exception"
        /\ err = ValueError(EXITCODE_NO_UPLOAD_DEVICE) =>
              Entered("delete") /\ Len(CmdsOf("flash")) = 1

C7_Witness ==
    /\ C7_NoDeviceCase
    /\ ~args.simulate
    /\ pc = "failed"
    /\ err = ValueError(EXITCODE_NO_UPLOAD_DEVICE)
    /\ Len(CmdsOf("flash")) = 1

\* ---- C8
\* C8 as stated: in a terminal state reached after a failure of the project
\* compilation no translated copy recorded by the run is left in the project
\* directory.
C8_CopiesDeletedAfterFailedCompile ==
    (/\ pc = "failed"
     /\ cmds # <<>>
     /\ Failed(cmds[Len(cmds)])
     /\ cmds[Len(cmds)].stage = "project") =>
        \A k \in 1..Len(cpp_files) : ~HasName(projDir, cpp_files[k].name)

\* ---- C9
C9_Files(listing) == SelectSeq(listing, LAMBDA e : e.name # Nm(".build", ""))

\* C9: preparation leaves an existing build directory untouched when refresh
\* is not set, and an empty one when refresh is set or when there was none;
\* the build directory exists from preparation on, so when the first compile
\* starts; preparation changes nothing else of the project directory.
C9_Preparation ==
    /\ stages # <<>> => build.exists /\ HasName(projDir, Nm(".build", ""))
    /\ cmds # <<>> => build.exists
    /\ (stages # <<>> /\ cmds = <<>>) =>
          /\ (build0.exists /\ args.refresh) => build.files = {}
          /\ ~build0.exists => build.files = {}
          /\ (build0.exists /\ ~args.refresh) => build = build0
    /\ (stages # <<>> /\ ~Entered("translate")) =>
          C9_Files(projDir) = C9_Files(proj0)
    /\ stages = <<>> => build = build0 /\ projDir = proj0

C9_Witness ==
    /\ pc = "prepare"
    /\ cmds = <<>>
    /\ build0.exists
    /\ ~args.refresh
    /\ build.files # {}

\* ---- C10
C10_Compilable == {".c", ".S", ".cpp"}

\* the regular files with a compilable extension that a listing holds
C10_Sources(dir, listing) ==
    LET fs == SelectSeq(listing, LAMBDA e : e.kind = "file" /\ e.name.ext \in C10_Compilable)
    IN  [k \in 1..Len(fs) |-> Pth(dir, fs[k].name)]

RECURSIVE C10_LibSources(_)
C10_LibSources(n) ==
    IF n = 0 THEN <<>>
    ELSE C10_LibSources(n - 1) \o C10_Sources(libraries[n], LibListing(libraries[n]))

C10_Objects(srcs) ==
    [k \in 1..Len(srcs) |->
        Pth(BuildDir, Nm(srcs[k].name.stem \o srcs[k].name.ext, ".o"))]

\* C10: no compile command is ever issued for a header, a platform-entry
\* file, a file of unknown extension or a subdirectory; a finished pass over
\* a directory has issued exactly one compile command for each regular file
\* of compilable extension the directory holds, in iteration order, and has
\* returned exactly their object paths, the sentinel not among them.
C10_DirectoryPass ==
    /\ \A k \in 1..Len(cmds) :
          cmds[k].action = "compile" => cmds[k].src.name.ext \in C10_Compilable
    /\ IsPrefix(SourcesOf(CompileCmds("core")), C10_Sources(CoreDir, CoreListing))
    /\ IsPrefix(SourcesOf(CompileCmds("libs")), C10_LibSources(Len(libraries)))
    /\ Entered("libs") =>
          /\ SourcesOf(CompileCmds("core")) = C10_Sources(CoreDir, CoreListing)
          /\ core_obj_files = C10_Objects(C10_Sources(CoreDir, CoreListing))
    /\ Entered("translate") =>
          /\ SourcesOf(CompileCmds("libs")) = C10_LibSources(Len(libraries))
          /\ libraries_obj_files = C10_Objects(C10_LibSources(Len(libraries)))
    /\ (Entered("project") /\ ~Entered("delete")) =>
          IsPrefix(SourcesOf(CompileCmds("project")), C10_Sources(ProjectDir, projDir))
    /\ (Entered("link") /\ ~Entered("delete")) =>
          /\ SourcesOf(CompileCmds("project")) = C10_Sources(ProjectDir, projDir)
          /\ project_obj_files = C10_Objects(C10_Sources(ProjectDir, projDir))
    /\ \A k \in 1..Len(cmds) :
          Failed(cmds[k]) => cmds[k].action # "compile"
                             \/ cmds[k].src.name.ext \in C10_Compilable
    /\ \A fs \in {core_obj_files, libraries_obj_files, project_obj_files} :
          \A k \in 1..Len(fs) : fs[k] # NULL_PATH

C10_Witness ==
    /\ Entered("link")
    /\ ~Entered("delete")
    /\ Len(libraries) = 2
    /\ HasName(projDir, Nm("blink", ".pde"))
    /\ HasName(projDir, Nm("main", ".ino"))
    /\ Len(project_obj_files) = 1

\* ---- C11
\* the directories a call was given: the source's own, then include_dirs
C11_Given == <<call.source.dir>> \o call.include_dirs
\* the first place of directory d in a list
C11_First(d, list) == CHOOSE k \in 1..Len(list) : list[k] = d /\ \A j \in 1..(k - 1) : list[j] # d
C11_Dirs == {C11_Given[k] : k \in 1..Len(C11_Given)}

\* C11: the -I flags of the command compile_source builds start with the
\* source's own directory, name every directory given (the source's own and
\* those of include_dirs) exactly once and no other, and stand in the order
\* in which the directories first occur in the input.
C11_IncludeList ==
    \A c \in {call.cmds[k] : k \in 1..Len(call.cmds)} :
        /\ c.includes[1] = "-I" \o call.source.dir
        /\ Len(c.includes) = Cardinality(C11_Dirs)
        /\ \A d \in C11_Dirs :
              Cardinality({k \in 1..Len(c.includes) : c.includes[k] = "-I" \o d}) = 1
        /\ \A d, e \in C11_Dirs :
              C11_First(d, C11_Given) < C11_First(e, C11_Given) =>
                  C11_First("-I" \o d, c.includes) < C11_First("-I" \o e, c.includes)

C11_Witness ==
    /\ call.returned
    /\ call.cmds # <<>>
    /\ call.source.dir = "Servo"
    /\ call.include_dirs = <<CoreDir, "Servo", CoreDir>>

\* ---- C12
\* C12 as stated: the programmer configuration file is optional.  A run
\* given no --dude-conf is not ended for that reason: it goes on to the build
\* whenever its directory options pass main's tests; and the programmer
\* command carries the -C flag exactly when a path was given.
C12_ConfigFileOptional ==
    /\ (args.dude_conf = None /\ pc = "failed") => err.kind = "ValueError"
    /\ \A k \in 1..Len(cmds) :
          cmds[k].action = "upload" => cmds[k].conf = ConfFlag(args.dude_conf)

\* ---- C13
\* the platform-entry files of a listing: those the classifier maps to
\* 'arduino'
C13_PlatformEntries(listing) ==
    SelectSeq(listing, LAMBDA e : IsFile(e) /\ COMPILERS(e.name.ext) = "arduino")

\* a run that ended well, with refresh and an upload device, on a project
\* that held one platform-entry file
C13_Case ==
    /\ pc = "done"
    /\ args.refresh
    /\ ~args.only_build
    /\ args.upload_port # None
    /\ Len(C13_PlatformEntries(proj0)) = 1

\* C13 as stated: in such a run exactly one translated copy was created and
\* is gone at the end; link targets <project>.elf in the build directory;
\* extraction ran exactly twice on that .elf, giving the .epp and the .hex of
\* the same stem; the programmer ran exactly once, after both, on that .hex.
C13_EndToEnd ==
    C13_Case =>
        /\ Len(cpp_files) = 1
        /\ \A k \in 1..Len(cpp_files) : ~HasName(projDir, cpp_files[k].name)
        /\ Len(CmdsOf("link")) = 1
        /\ CmdsOf("link")[1].target = Pth(BuildDir, Nm(ProjectDir, ".elf"))
        /\ LET n == Len(cmds)
           IN  /\ n >= 4
               /\ cmds[n - 3].action = "link"
               /\ cmds[n - 2].action = "eeprom"
               /\ cmds[n - 2].src = cmds[n - 3].target
               /\ cmds[n - 2].target = Pth(BuildDir, Nm(ProjectDir, ".epp"))
               /\ cmds[n - 1].action = "flash"
               /\ cmds[n - 1].src = cmds[n - 3].target
               /\ cmds[n - 1].target = Pth(BuildDir, Nm(ProjectDir, ".hex"))
               /\ cmds[n].action = "upload"
               /\ cmds[n].src = cmds[n - 1].target
        /\ Len(CmdsOf("eeprom")) = 1
        /\ Len(CmdsOf("flash")) = 1
        /\ Len(CmdsOf("upload")) = 1

\* the same for a project whose one platform-entry file is a .ino
C13_EndToEndIno ==
    (\E k \in 1..Len(proj0) : proj0[k].name.ext = ".ino") => C13_EndToEnd

\* ---- C14
\* the project directory held no file before the run
C14_EmptyProject == C9_Files(proj0) = <<>>

\* C14: for a project directory without any file, translation records no
\* copy, deletion removes nothing, the project pass issues no command and
\* returns no object, and link is still reached and invoked, on the library
\* objects followed by the core objects only.
C14_EmptyProjectStillLinks ==
    C14_EmptyProject =>
        /\ cpp_files = <<>>
        /\ C9_Files(projDir) = <<>>
        /\ CompileCmds("project") = <<>>
        /\ project_obj_files = <<>>
        /\ Finished("project") => ENABLED Link
        /\ \A k \in 1..Len(cmds) :
              cmds[k].action = "link" =>
                  /\ cmds[k].files = libraries_obj_files \o core_obj_files
                  /\ cmds[k].files = TargetsOf(CompileCmds("libs"))
                                       \o TargetsOf(CompileCmds("core"))
        /\ Entered("delete") => Len(CmdsOf("link")) = 1

C14_Witness ==
    /\ C14_EmptyProject
    /\ Entered("delete")
    /\ Len(CmdsOf("link")) = 1
    /\ Len(CmdsOf("link")[1].files) = 4
    /\ ~args.simulate

\* ---- C15
\* the sibling with the .cpp extension of a project entry
C15_Sibling(e) == Nm(e.name.stem, ".cpp")

\* C15 as stated: from the end of translation until the deletion of the
\* copies, every platform-entry file the project held (.ino or .pde) has a
\* sibling .cpp with its content; and a finished project pass has returned
\* the object of each of these siblings.
C15_EveryPlatformEntryTranslated ==
    \A k \in 1..Len(C13_PlatformEntries(proj0)) :
        LET e == C13_PlatformEntries(proj0)[k]
        IN  /\ (Entered("translate") /\ ~Entered("delete")) =>
                  \E j \in 1..Len(projDir) :
                      /\ projDir[j].name = C15_Sibling(e)
                      /\ projDir[j].data = e.data
            /\ Entered("link") =>
                  \E j \in 1..Len(project_obj_files) :
                      project_obj_files[j] =
                          ObjectPath(Pth(ProjectDir, C15_Sibling(e)), BuildDir)

\* ---- C16
\* C16 as stated: the -mmcu value of the link command is the architecture
\* of the run's configuration, the same as the -mmcu value of every compile
\* command of the run and as the part given to the programmer.
C16_OneArchitecture ==
    \A k \in 1..Len(cmds) :
        /\ cmds[k].action \in {"compile", "link", "upload"} => cmds[k].mcu = args.arch
        /\ cmds[k].action = "link" =>
              \A j \in 1..Len(cmds) :
                  cmds[j].action \in {"compile", "upload"} => cmds[j].mcu = cmds[k].mcu

\* ---- C17
\* the run ended by the failure of a command of one of the given stages
C17_FailedIn(stageSet) ==
    /\ pc = "failed"
    /\ cmds # <<>>
    /\ Failed(cmds[Len(cmds)])
    /\ cmds[Len(cmds)].stage \in stageSet

\* every translated copy recorded by the run is in the project directory
C17_CopiesOnDisk == \A k \in 1..Len(cpp_files) : HasName(projDir, cpp_files[k].name)

\* C17 as stated: after a failure of link, extraction or upload the
\* translated copies created in the run are still on disk.
C17_CopiesLeftAfterLateFailure ==
    C17_FailedIn({"link", "extract", "upload"}) => C17_CopiesOnDisk

\* C17, amended: after a failure of link or of either extraction the
\* translated copies created in the run are still on disk; after a failure
\* of the upload none of them is, the deletion having run before the upload.
C17_CopiesLeftUnlessUploadFailed ==
    /\ C17_FailedIn({"link", "extract"}) => C17_CopiesOnDisk
    /\ C17_FailedIn({"upload"}) =>
          /\ Entered("delete")
          /\ \A k \in 1..Len(cpp_files) : ~HasName(projDir, cpp_files[k].name)

C17_Witness ==
    /\ C17_FailedIn({"upload"})
    /\ cpp_files # <<>>

\* ---- C18
\* C18 as stated: in every terminal state each file the project directory
\* held before the run is still there with the same content.
C18_OwnFilesKept ==
    Terminated =>
        \A k \in 1..Len(proj0) :
            IsFile(proj0[k]) => \E j \in 1..Len(projDir) : projDir[j] = proj0[k]

\* ---- C19
\* C19 as stated: two compile commands of a run on different sources have
\* different object paths, and the link command names no object twice.
C19_OneObjectPerSource ==
    /\ \A j, k \in 1..Len(cmds) :
          (/\ cmds[j].action = "compile"
           /\ cmds[k].action = "compile"
           /\ cmds[j].src # cmds[k].src) => cmds[j].target # cmds[k].target
    /\ \A k \in 1..Len(cmds) :
          cmds[k].action = "link" =>
              \A a, b \in 1..Len(cmds[k].files) :
                  a # b => cmds[k].files[a] # cmds[k].files[b]

\* ---- C20
\* C20 as stated: a simulate-mode run never changes the build directory or
\* the project directory: no build directory is deleted or created, no
\* translated copy is created, and in the terminal state both hold what
\* they held before the run.
C20_SimulateLeavesDiskAlone ==
    args.simulate => build = build0 /\ projDir = proj0

====
